---------------------------- MODULE Spec2Model ----------------------------
(***************************************************************************)
(* Trivium: the classical implementation (cl_trivium.py) and the           *)
(* gate-level implementation on computational-basis values                 *)
(* (qc_trivium.py, grover_trivium_attack.py).                              *)
(*                                                                         *)
(* A Python list is a TLA+ sequence; Python index k is TLA+ index k + 1.   *)
(* At and Slice keep the source's 0-based indices readable.                *)
(***************************************************************************)
EXTENDS Integers, Sequences, FiniteSets, TLC

VARIABLES
  pc,         \* position of the running script
  i,          \* loop variable of the loop being executed
  key, iv,    \* arguments of key_iv_setup
  su_state,   \* local `state` of key_iv_setup
  state,      \* module-level `state`: what key_iv_setup returned
  N,          \* argument N of the running key_stream_generation call
  ks_state,   \* local `state` of key_stream_generation
  keystream,  \* local `keystream` of key_stream_generation
  calls,      \* the calls of key_stream_generation made so far: <<N, result>>
  err,        \* exception that ended the script, "none" otherwise
  qc,         \* basis values of the circuit's registers s, t, z
  rounds, n,  \* arguments of trivium / inv_trivium
  s0          \* register s as prepared before trivium is applied

vars == <<pc, i, key, iv, su_state, state, N, ks_state, keystream, calls, err,
          qc, rounds, n, s0>>

clvars == <<key, iv, su_state, state, N, ks_state, keystream, calls, err>>
qvars  == <<qc, rounds, n, s0>>

---------------------------------------------------------------------------
(* Bits and Python lists *)

Bit == {0, 1}

Xor(a, b) == (a + b) % 2

And(a, b) == a * b

At(l, k) == l[k + 1]

Slice(l, a, b) == SubSeq(l, a + 1, b)

Zeros(len) == [k \in 1..len |-> 0]

Range(len) == 0..(len - 1)

---------------------------------------------------------------------------
(* Inputs *)

MaxN == 3        \* largest keystream length requested
MaxCalls == 2    \* key_stream_generation calls made on one state

NibbleBits(h) == <<(h \div 8) % 2, (h \div 4) % 2, (h \div 2) % 2, h % 2>>

RECURSIVE BitArray(_)
BitArray(hex) ==
  IF hex = <<>> THEN <<>> ELSE NibbleBits(Head(hex)) \o BitArray(Tail(hex))

KeyHex == <<0, 1, 2, 3, 4, 5, 6, 7, 8, 9, 10, 11, 12, 13, 14, 15, 1, 2, 3, 4>>

IvHex == <<0, 1, 2, 3, 4, 5, 6, 7, 8, 9, 10, 11, 12, 13, 14, 15, 1, 2, 3, 4>>

KeyInputs ==
  { BitArray(KeyHex), Zeros(80),
    SubSeq(BitArray(KeyHex), 1, 79), BitArray(KeyHex) \o <<1>> }

IvInputs ==
  { BitArray(IvHex), Zeros(80),
    SubSeq(BitArray(IvHex), 1, 79), BitArray(IvHex) \o <<1>> }

---------------------------------------------------------------------------
(* cl_trivium.py *)

\* state = [0] * 288; the three loading loops. A read past the end of key or
\* iv raises IndexError and leaves the local list as written so far.
LoadKey(st, k) ==
  [j \in 1..288 |-> IF j - 1 < 80 /\ j - 1 < Len(k) THEN At(k, j - 1) ELSE st[j]]

\* the IV written one cell early
LoadIv_early(st, v) ==
  [j \in 1..288 |->
     IF j - 1 >= 92 /\ j - 1 - 92 < 80 /\ j - 1 - 92 < Len(v)
       THEN At(v, j - 1 - 92) ELSE st[j]]

LoadIv(st, v) ==
  [j \in 1..288 |->
     IF j - 1 >= 93 /\ j - 1 - 93 < 80 /\ j - 1 - 93 < Len(v)
       THEN At(v, j - 1 - 93) ELSE st[j]]

LoadOnes(st) ==
  [j \in 1..288 |-> IF j - 1 >= 285 /\ j - 1 < 285 + 3 THEN 1 ELSE st[j]]

WarmupRounds == 4 * 288

\* the taps read after the cells have been shifted
WarmupClock_stale(st) ==
  LET sh == <<0>> \o Slice(st, 0, 92) \o <<0>> \o Slice(st, 93, 176) \o <<0>> \o Slice(st, 177, 287)
      t1 == Xor(Xor(Xor(At(sh, 65), And(At(sh, 90), At(sh, 91))), At(sh, 92)), At(sh, 170))
      t2 == Xor(Xor(Xor(At(sh, 161), And(At(sh, 174), At(sh, 175))), At(sh, 176)), At(sh, 263))
      t3 == Xor(Xor(Xor(At(sh, 242), And(At(sh, 285), At(sh, 286))), At(sh, 287)), At(sh, 68))
  IN  <<t3>> \o Slice(st, 0, 92) \o <<t1>> \o Slice(st, 93, 176) \o <<t2>> \o Slice(st, 177, 287)

\* one iteration of the warm-up loop
WarmupClock(st) ==
  LET t1 == Xor(Xor(Xor(At(st, 65), And(At(st, 90), At(st, 91))), At(st, 92)), At(st, 170))
      t2 == Xor(Xor(Xor(At(st, 161), And(At(st, 174), At(st, 175))), At(st, 176)), At(st, 263))
      t3 == Xor(Xor(Xor(At(st, 242), And(At(st, 285), At(st, 286))), At(st, 287)), At(st, 68))
  IN  <<t3>> \o Slice(st, 0, 92) \o <<t1>> \o Slice(st, 93, 176) \o <<t2>> \o Slice(st, 177, 287)

\* one cell too many
NewKeystream_long(len) == [k \in 1..(len + 1) |-> 0]

\* keystream = [0] * N (the empty list when N <= 0)
NewKeystream(len) == [k \in 1..len |-> 0]

\* z taken after t1, t2, t3 have been completed
KsOutput_late(st) ==
  LET t1 == Xor(Xor(Xor(At(st, 65), At(st, 92)), And(At(st, 90), At(st, 91))), At(st, 170))
      t2 == Xor(Xor(Xor(At(st, 161), At(st, 176)), And(At(st, 174), At(st, 175))), At(st, 263))
      t3 == Xor(Xor(Xor(At(st, 242), At(st, 287)), And(At(st, 285), At(st, 286))), At(st, 68))
  IN  Xor(Xor(t1, t2), t3)

\* the bit z of one iteration of the keystream loop
KsOutput(st) ==
  LET t1 == Xor(At(st, 65), At(st, 92))
      t2 == Xor(At(st, 161), At(st, 176))
      t3 == Xor(At(st, 242), At(st, 287))
  IN  Xor(Xor(t1, t2), t3)

\* t1 and t2 inserted in each other's place
KsClock_swapped(st) ==
  LET t1 == Xor(Xor(Xor(At(st, 65), At(st, 92)), And(At(st, 90), At(st, 91))), At(st, 170))
      t2 == Xor(Xor(Xor(At(st, 161), At(st, 176)), And(At(st, 174), At(st, 175))), At(st, 263))
      t3 == Xor(Xor(Xor(At(st, 242), At(st, 287)), And(At(st, 285), At(st, 286))), At(st, 68))
  IN  <<t3>> \o Slice(st, 0, 92) \o <<t2>> \o Slice(st, 93, 176) \o <<t1>> \o Slice(st, 177, 287)

\* the list `state` is rebound to by one iteration of the keystream loop
KsClock(st) ==
  LET t1a == Xor(At(st, 65), At(st, 92))
      t2a == Xor(At(st, 161), At(st, 176))
      t3a == Xor(At(st, 242), At(st, 287))
      t1 == Xor(Xor(t1a, And(At(st, 90), At(st, 91))), At(st, 170))
      t2 == Xor(Xor(t2a, And(At(st, 174), At(st, 175))), At(st, 263))
      t3 == Xor(Xor(t3a, And(At(st, 285), At(st, 286))), At(st, 68))
  IN  <<t3>> \o Slice(st, 0, 92) \o <<t1>> \o Slice(st, 93, 176) \o <<t2>> \o Slice(st, 177, 287)

InitCl ==
  /\ pc = "start"
  /\ i = 0
  /\ key \in KeyInputs
  /\ iv \in IvInputs
  /\ su_state = <<>>
  /\ state = <<>>
  /\ N = 0
  /\ ks_state = <<>>
  /\ keystream = <<>>
  /\ calls = <<>>
  /\ err = "none"
  /\ qc = [s |-> <<>>, t |-> <<>>, z |-> <<>>]
  /\ rounds = 0
  /\ n = 0
  /\ s0 = <<>>

\* key_iv_setup, lines 27-36
SetupLoad ==
  /\ pc = "start"
  /\ IF Len(key) < 80
       THEN /\ su_state' = LoadKey(Zeros(288), key)
            /\ err' = "IndexError"
            /\ pc' = "raised"
       ELSE IF Len(iv) < 80
         THEN /\ su_state' = LoadIv(LoadKey(Zeros(288), key), iv)
              /\ err' = "IndexError"
              /\ pc' = "raised"
         ELSE /\ su_state' = LoadOnes(LoadIv(LoadKey(Zeros(288), key), iv))
              /\ err' = err
              /\ pc' = "warmup"
  /\ i' = 0
  /\ UNCHANGED <<key, iv, state, N, ks_state, keystream, calls>>
  /\ UNCHANGED qvars

\* key_iv_setup, one iteration of the loop of lines 38-43
SetupClock ==
  /\ pc = "warmup"
  /\ i < WarmupRounds
  /\ su_state' = WarmupClock(su_state)
  /\ i' = i + 1
  /\ UNCHANGED <<pc, key, iv, state, N, ks_state, keystream, calls, err>>
  /\ UNCHANGED qvars

\* key_iv_setup, line 45, and the assignment of line 84
SetupReturn ==
  /\ pc = "warmup"
  /\ i >= WarmupRounds
  /\ state' = su_state
  /\ pc' = "ready"
  /\ UNCHANGED <<i, key, iv, su_state, N, ks_state, keystream, calls, err>>
  /\ UNCHANGED qvars

\* key_stream_generation(state, N) is entered: line 58
KsCall ==
  /\ pc = "ready"
  /\ Len(calls) < MaxCalls
  /\ \E len \in -1..MaxN :
       /\ N' = len
       /\ keystream' = NewKeystream(len)
  /\ ks_state' = state
  /\ i' = 0
  /\ pc' = "ks"
  /\ UNCHANGED <<key, iv, su_state, state, calls, err>>
  /\ UNCHANGED qvars

\* key_stream_generation, one iteration of the loop of lines 59-71
KsStep ==
  /\ pc = "ks"
  /\ i < N
  /\ keystream' = [keystream EXCEPT ![i + 1] = KsOutput(ks_state)]
  /\ ks_state' = KsClock(ks_state)
  /\ i' = i + 1
  /\ UNCHANGED <<pc, key, iv, su_state, state, N, calls, err>>
  /\ UNCHANGED qvars

\* key_stream_generation, line 73
KsReturn ==
  /\ pc = "ks"
  /\ i >= N
  /\ calls' = Append(calls, <<N, keystream>>)
  /\ pc' = "ready"
  /\ UNCHANGED <<i, key, iv, su_state, state, N, ks_state, keystream, err>>
  /\ UNCHANGED qvars

NextCl == SetupLoad \/ SetupClock \/ SetupReturn \/ KsCall \/ KsStep \/ KsReturn

SpecCl == InitCl /\ [][NextCl]_vars

---------------------------------------------------------------------------
(* Circuits: a QuantumCircuit is the list of the gates appended to it, and   *)
(* running it on basis values applies them in order. A qubit is named by its *)
(* register and its index in it.                                             *)

MaxRounds == 3     \* largest number of warm-up rounds given to trivium
MaxKs == 3         \* largest number of keystream rounds given to trivium
NumPatterns == 3   \* dense register contents tried besides the prepared ones

S(k) == <<"s", k>>
T(k) == <<"t", k>>
Z(k) == <<"z", k>>

cx(c, x) == <<"cx", c, x>>
ccx(c1, c2, x) == <<"ccx", c1, c2, x>>
swap(a, b) == <<"swap", a, b>>

Get(q, qb) == q[qb[1]][qb[2] + 1]

Put(q, qb, v) == [q EXCEPT ![qb[1]] = [@ EXCEPT ![qb[2] + 1] = v]]

\* the action of one gate on basis values
ApplyGate(q, g) ==
  CASE g[1] = "cx"   -> Put(q, g[3], Xor(Get(q, g[3]), Get(q, g[2])))
    [] g[1] = "ccx"  -> Put(q, g[4], Xor(Get(q, g[4]), And(Get(q, g[2]), Get(q, g[3]))))
    [] g[1] = "swap" -> Put(Put(q, g[2], Get(q, g[3])), g[3], Get(q, g[2]))
    [] g[1] = "x"    -> Put(q, g[2], Xor(Get(q, g[2]), 1))
    [] g[1] = "mcx"  -> IF \A k \in 1..Len(g[2]) : Get(q, g[2][k]) = 1
                          THEN Put(q, g[3], Xor(Get(q, g[3]), 1))
                          ELSE q

\* gates lo..hi of a circuit applied in order (the first half is run, then
\* the second half on its result)
RECURSIVE RunRange(_, _, _, _)
RunRange(q, gates, lo, hi) ==
  IF hi < lo THEN q
  ELSE IF hi = lo THEN ApplyGate(q, gates[lo])
  ELSE LET mid == (lo + hi) \div 2
       IN  CHOOSE res \in { RunRange(h, gates, mid + 1, hi) :
                             h \in { RunRange(q, gates, lo, mid) } } : TRUE

Run(q, gates) == RunRange(q, gates, 1, Len(gates))

---------------------------------------------------------------------------
(* grover_trivium_attack.py (state_update, state_shifting and update_t are   *)
(* the same in qc_trivium.py)                                                *)

state_update(a, b, c, d, e, t_index) ==
  << cx(S(a), S(d)),
     ccx(S(b), S(c), S(d)),
     cx(S(e), S(d)),
     swap(S(d), T(t_index)) >>

\* the loop stops before t is swapped in
state_shifting_short(a, b, t) ==
  [k \in 1..(a - b) |-> LET j == a - (k - 1) IN swap(S(j), S(j - 1))]

state_shifting(a, b, t) ==
  [k \in 1..(a - b + 1) |->
     LET j == a - (k - 1)
     IN  IF j = b THEN swap(S(b), t) ELSE swap(S(j), S(j - 1))]

update_t(a, b, t_index) ==
  << cx(S(a), S(b)),
     swap(S(b), T(t_index)) >>

\* trivium: one iteration of the loop of lines 85-92
trivium_warmup_round ==
  state_update(65, 90, 91, 92, 170, 0)
  \o state_update(161, 174, 175, 176, 263, 1)
  \o state_update(242, 285, 286, 287, 68, 2)
  \o state_shifting(287, 177, T(1))
  \o state_shifting(176, 93, T(0))
  \o state_shifting(92, 0, T(2))

\* trivium: iteration idx of the loop of lines 95-113
trivium_keystream_round(idx) ==
  update_t(65, 92, 0)
  \o update_t(161, 176, 1)
  \o update_t(242, 287, 2)
  \o << cx(T(0), Z(idx)), cx(T(1), Z(idx)), cx(T(2), Z(idx)) >>
  \o << ccx(S(90), S(91), T(0)), cx(S(170), T(0)),
        ccx(S(174), S(175), T(1)), cx(S(263), T(1)),
        ccx(S(285), S(286), T(2)), cx(S(68), T(2)) >>
  \o state_shifting(287, 177, T(1))
  \o state_shifting(176, 93, T(0))
  \o state_shifting(92, 0, T(2))

inv_state_update(a, b, c, d, e, t_index) ==
  << swap(S(d), T(t_index)),
     cx(S(e), S(d)),
     ccx(S(b), S(c), S(d)),
     cx(S(a), S(d)) >>

state_shifting_left(a, b, t) ==
  [k \in 1..(a + 1 - b) |->
     LET j == b + (k - 1)
     IN  IF j = b THEN swap(S(b), t) ELSE swap(S(j), S(j - 1))]

\* the gates of update_t, not reversed
inv_update_t_forward(a, b, t_index) ==
  << cx(S(a), S(b)),
     swap(S(b), T(t_index)) >>

inv_update_t(a, b, t_index) ==
  << swap(S(b), T(t_index)),
     cx(S(a), S(b)) >>

\* inv_trivium: iteration idx of the loop of lines 146-165, called with cnt
\* keystream bits
inv_trivium_keystream_round(idx, cnt) ==
  state_shifting_left(92, 0, T(2))
  \o state_shifting_left(176, 93, T(0))
  \o state_shifting_left(287, 177, T(1))
  \o << cx(S(68), T(2)), ccx(S(285), S(286), T(2)),
        cx(S(263), T(1)), ccx(S(174), S(175), T(1)),
        cx(S(170), T(0)), ccx(S(90), S(91), T(0)) >>
  \o << cx(T(2), Z(cnt - 1 - idx)), cx(T(1), Z(cnt - 1 - idx)), cx(T(0), Z(cnt - 1 - idx)) >>
  \o inv_update_t(242, 287, 2)
  \o inv_update_t(161, 176, 1)
  \o inv_update_t(65, 92, 0)

\* inv_trivium: one iteration of the loop of lines 168-175
inv_trivium_warmup_round ==
  state_shifting_left(92, 0, T(2))
  \o state_shifting_left(176, 93, T(0))
  \o state_shifting_left(287, 177, T(1))
  \o inv_state_update(242, 285, 286, 287, 68, 2)
  \o inv_state_update(161, 174, 175, 176, 263, 1)
  \o inv_state_update(65, 90, 91, 92, 170, 0)

\* the known key bits, lines 281-282, around the three unknown ones
key_0_50 ==
  <<0,0,0,0,0,0,0,1,0,0,1,0,0,0,1,1,0,1,0,0,0,1,0,1,0,1,1,0,0,1,1,1,1,0,0,0,1,
    0,0,1,1,0,1,0,1,0,1,1,1,1,0>>

key_54_79 == <<0,1,1,1,1,0,1,1,1,1,0,0,0,1,0,0,1,0,0,0,1,1,0,1,0,0>>

\* the IV, line 292
grover_iv ==
  <<0,0,0,0,0,0,0,1,0,0,1,0,0,0,1,1,0,1,0,0,0,1,0,1,0,1,1,0,0,1,1,1,1,0,0,0,1,
    0,0,1,1,0,1,0,1,0,1,1,1,1,0,0,1,1,0,1,1,1,1,0,1,1,1,1,0,0,0,1,0,0,1,0,0,0,
    1,1,0,1,0,0>>

\* register s as lines 284-301 prepare it, with the basis value r_key of the
\* unknown key bits copied into s[51..53] (oracle, lines 197-198)
Prepared(r_key) ==
  [j \in 1..288 |->
     LET k == j - 1
     IN  IF k < 51 THEN At(key_0_50, k)
         ELSE IF k < 51 + 3 THEN At(r_key, k - 51)
         ELSE IF k < 54 + 26 THEN At(key_54_79, k - 54)
         ELSE IF k >= 93 /\ k < 93 + 80 THEN At(grover_iv, k - 93)
         ELSE IF k \in {285, 286, 287} THEN 1
         ELSE 0]

\* dense register contents
Pattern(p) == [j \in 1..288 |-> IF ((j * j + p * j) % 7) < 3 THEN 1 ELSE 0]

StartStates ==
  { Prepared(<<a, b, c>>) : a \in Bit, b \in Bit, c \in Bit }
    \cup { Pattern(p) : p \in 1..NumPatterns }

\* qc_trivium.py: register s as lines 84-96 prepare it
QcPrepared ==
  [j \in 1..288 |->
     LET k == j - 1
     IN  IF k < 80 THEN At(BitArray(KeyHex), k)
         ELSE IF k >= 93 /\ k < 93 + 80 THEN At(BitArray(IvHex), k - 93)
         ELSE IF k \in {285, 286, 287} THEN 1
         ELSE 0]

r == 256

\* qc_trivium.py: one iteration of the loop of lines 99-106
qc_warmup_round ==
  state_update(65, 90, 91, 92, 170, 0)
  \o state_update(161, 174, 175, 176, 263, 1)
  \o state_update(242, 285, 286, 287, 68, 2)
  \o state_shifting(287, 177, T(1))
  \o state_shifting(176, 93, T(0))
  \o state_shifting(92, 0, T(2))

\* qc_trivium.py: iteration idx of the loop of lines 109-127
qc_keystream_round(idx) ==
  update_t(65, 92, 0)
  \o update_t(161, 176, 1)
  \o update_t(242, 287, 2)
  \o << cx(T(0), Z(idx)), cx(T(1), Z(idx)), cx(T(2), Z(idx)) >>
  \o << ccx(S(90), S(91), T(0)), cx(S(170), T(0)),
        ccx(S(174), S(175), T(1)), cx(S(263), T(1)),
        ccx(S(285), S(286), T(2)), cx(S(68), T(2)) >>
  \o state_shifting(287, 177, T(1))
  \o state_shifting(176, 93, T(0))
  \o state_shifting(92, 0, T(2))

\* Either the circuit of qc_trivium.py is run, or trivium and then
\* inv_trivium of grover_trivium_attack.py are applied, as oracle applies
\* them, to a register s holding s0.
InitQ ==
  /\ i = 0
  /\ \/ /\ pc = "qc_warmup"
        /\ s0 = QcPrepared
        /\ rounds = 0
        /\ n = 0
        /\ qc = [s |-> s0, t |-> Zeros(3), z |-> Zeros(r)]
     \/ /\ pc = "trivium_warmup"
        /\ s0 \in StartStates
        /\ rounds \in 0..MaxRounds
        /\ n \in 0..MaxKs
        /\ qc = [s |-> s0, t |-> Zeros(3), z |-> Zeros(n)]
  /\ key = <<>>
  /\ iv = <<>>
  /\ su_state = <<>>
  /\ state = <<>>
  /\ N = 0
  /\ ks_state = <<>>
  /\ keystream = <<>>
  /\ calls = <<>>
  /\ err = "none"

\* qc_trivium.py, lines 99-106
QcWarmup ==
  /\ pc = "qc_warmup"
  /\ i < 1152
  /\ qc' = Run(qc, qc_warmup_round)
  /\ i' = i + 1
  /\ UNCHANGED <<pc, rounds, n, s0>>
  /\ UNCHANGED clvars

QcWarmupEnd ==
  /\ pc = "qc_warmup"
  /\ i >= 1152
  /\ pc' = "qc_keystream"
  /\ i' = 0
  /\ UNCHANGED <<qc, rounds, n, s0>>
  /\ UNCHANGED clvars

\* qc_trivium.py, lines 109-127
QcKeystream ==
  /\ pc = "qc_keystream"
  /\ i < r
  /\ qc' = Run(qc, qc_keystream_round(i))
  /\ i' = i + 1
  /\ UNCHANGED <<pc, rounds, n, s0>>
  /\ UNCHANGED clvars

\* qc_trivium.py, line 129
QcMeasure ==
  /\ pc = "qc_keystream"
  /\ i >= r
  /\ pc' = "qc_measured"
  /\ UNCHANGED <<i, qc, rounds, n, s0>>
  /\ UNCHANGED clvars

\* trivium, lines 85-92
TriviumWarmup ==
  /\ pc = "trivium_warmup"
  /\ i < rounds
  /\ qc' = Run(qc, trivium_warmup_round)
  /\ i' = i + 1
  /\ UNCHANGED <<pc, rounds, n, s0>>
  /\ UNCHANGED clvars

TriviumWarmupEnd ==
  /\ pc = "trivium_warmup"
  /\ i >= rounds
  /\ pc' = "trivium_keystream"
  /\ i' = 0
  /\ UNCHANGED <<qc, rounds, n, s0>>
  /\ UNCHANGED clvars

\* trivium, lines 95-113
TriviumKeystream ==
  /\ pc = "trivium_keystream"
  /\ i < n
  /\ qc' = Run(qc, trivium_keystream_round(i))
  /\ i' = i + 1
  /\ UNCHANGED <<pc, rounds, n, s0>>
  /\ UNCHANGED clvars

TriviumReturn ==
  /\ pc = "trivium_keystream"
  /\ i >= n
  /\ pc' = "inv_keystream"
  /\ i' = 0
  /\ UNCHANGED <<qc, rounds, n, s0>>
  /\ UNCHANGED clvars

\* inv_trivium, lines 146-165
InvTriviumKeystream ==
  /\ pc = "inv_keystream"
  /\ i < n
  /\ qc' = Run(qc, inv_trivium_keystream_round(i, n))
  /\ i' = i + 1
  /\ UNCHANGED <<pc, rounds, n, s0>>
  /\ UNCHANGED clvars

InvTriviumKeystreamEnd ==
  /\ pc = "inv_keystream"
  /\ i >= n
  /\ pc' = "inv_warmup"
  /\ i' = 0
  /\ UNCHANGED <<qc, rounds, n, s0>>
  /\ UNCHANGED clvars

\* inv_trivium, lines 168-175
InvTriviumWarmup ==
  /\ pc = "inv_warmup"
  /\ i < rounds
  /\ qc' = Run(qc, inv_trivium_warmup_round)
  /\ i' = i + 1
  /\ UNCHANGED <<pc, rounds, n, s0>>
  /\ UNCHANGED clvars

InvTriviumReturn ==
  /\ pc = "inv_warmup"
  /\ i >= rounds
  /\ pc' = "inverted"
  /\ UNCHANGED <<i, qc, rounds, n, s0>>
  /\ UNCHANGED clvars

NextQ ==
  \/ QcWarmup \/ QcWarmupEnd \/ QcKeystream \/ QcMeasure
  \/ TriviumWarmup \/ TriviumWarmupEnd \/ TriviumKeystream \/ TriviumReturn
  \/ InvTriviumKeystream \/ InvTriviumKeystreamEnd
  \/ InvTriviumWarmup \/ InvTriviumReturn

SpecQ == InitQ /\ [][NextQ]_vars

---------------------------------------------------------------------------
(* grover_trivium_attack.py: oracle *)

OracleRounds == 2   \* largest number of rounds given to oracle, the script's aside
OracleBits == 2     \* largest number of key bits given to oracle, the script's aside

RKey(k) == <<"r_key", k>>
RevKs(k) == <<"rev_ks", k>>
RAncilla(k) == <<"r_ancilla", k>>
ROutput(k) == <<"r_output", k>>

x(a) == <<"x", a>>
mcx(controls, target) == <<"mcx", controls, target>>

\* the gates of `cnt` successive warm-up rounds
RECURSIVE trivium_warmup(_)
trivium_warmup(cnt) ==
  IF cnt <= 0 THEN <<>>
  ELSE IF cnt = 1 THEN trivium_warmup_round
  ELSE trivium_warmup(cnt \div 2) \o trivium_warmup(cnt - (cnt \div 2))

\* the gates of keystream rounds lo..hi
RECURSIVE trivium_keystream(_, _)
trivium_keystream(lo, hi) ==
  IF hi < lo THEN <<>>
  ELSE IF hi = lo THEN trivium_keystream_round(lo)
  ELSE trivium_keystream(lo, (lo + hi) \div 2)
       \o trivium_keystream(((lo + hi) \div 2) + 1, hi)

\* trivium(qc, s, t, rounds, n)
trivium(rnds, cnt) == trivium_warmup(rnds) \o trivium_keystream(0, cnt - 1)

RECURSIVE inv_trivium_keystream(_, _, _)
inv_trivium_keystream(lo, hi, cnt) ==
  IF hi < lo THEN <<>>
  ELSE IF hi = lo THEN inv_trivium_keystream_round(lo, cnt)
  ELSE inv_trivium_keystream(lo, (lo + hi) \div 2, cnt)
       \o inv_trivium_keystream(((lo + hi) \div 2) + 1, hi, cnt)

RECURSIVE inv_trivium_warmup(_)
inv_trivium_warmup(cnt) ==
  IF cnt <= 0 THEN <<>>
  ELSE IF cnt = 1 THEN inv_trivium_warmup_round
  ELSE inv_trivium_warmup(cnt \div 2) \o inv_trivium_warmup(cnt - (cnt \div 2))

\* inv_trivium(qc, s, t, rounds, n)
inv_trivium(rnds, cnt) ==
  inv_trivium_keystream(0, cnt - 1, cnt) \o inv_trivium_warmup(rnds)

\* oracle, lines 197-198 (and again lines 221-222)
oracle_copy_key(cnt) == [k \in 1..cnt |-> cx(RKey(k - 1), S(51 + (k - 1)))]

\* the comparison with the X gate left out
oracle_compare_no_x(cnt) ==
  [k \in 1..(2 * cnt) |->
     LET idx == (k - 1) \div 2
         step == (k - 1) % 2
     IN  IF step = 0 THEN cx(RevKs(idx), RAncilla(idx))
         ELSE cx(Z(idx), RAncilla(idx))]

\* oracle, lines 204-207
oracle_compare(cnt) ==
  [k \in 1..(3 * cnt) |->
     LET idx == (k - 1) \div 3
         step == (k - 1) % 3
     IN  IF step = 0 THEN cx(RevKs(idx), RAncilla(idx))
         ELSE IF step = 1 THEN cx(Z(idx), RAncilla(idx))
         ELSE x(RAncilla(idx))]

\* oracle, line 210
oracle_mark(cnt) == << mcx([k \in 1..cnt |-> RAncilla(k - 1)], ROutput(0)) >>

\* oracle, lines 213-216
oracle_uncompare(cnt) ==
  [k \in 1..(3 * cnt) |->
     LET idx == (k - 1) \div 3
         step == (k - 1) % 3
     IN  IF step = 0 THEN x(RAncilla(idx))
         ELSE IF step = 1 THEN cx(RevKs(idx), RAncilla(idx))
         ELSE cx(Z(idx), RAncilla(idx))]

\* the script's arguments of oracle, lines 258-259 and 271
grover_n == 3
grover_rounds == 200
known_ks == <<0, 0, 1>>

BitSeqs(len) == [1..len -> Bit]

\* register contents with the cells that receive the key bits at 0
KeyCellsCleared(st, cnt) ==
  [j \in 1..288 |-> IF j - 1 >= 51 /\ j - 1 < 51 + cnt THEN 0 ELSE st[j]]

\* Either oracle is called as the script calls it (line 311), r_key and
\* r_output holding any basis value, or with few rounds and bits on a
\* prepared or a dense register and any known keystream.
InitO ==
  /\ pc = "oracle"
  /\ i = 0
  /\ \/ /\ n = grover_n
        /\ rounds = grover_rounds
        /\ s0 = Prepared(Zeros(3))
        /\ \E rk \in BitSeqs(n), out \in Bit :
             qc = [s |-> s0, t |-> Zeros(3), z |-> Zeros(n),
                   r_key |-> rk, rev_ks |-> known_ks,
                   r_ancilla |-> Zeros(n), r_output |-> <<out>>]
     \/ /\ n \in 1..OracleBits
        /\ rounds \in 0..OracleRounds
        /\ s0 \in { KeyCellsCleared(Prepared(Zeros(3)), n), KeyCellsCleared(Pattern(1), n) }
        /\ \E rk \in BitSeqs(n), ks \in BitSeqs(n), out \in Bit :
             qc = [s |-> s0, t |-> Zeros(3), z |-> Zeros(n),
                   r_key |-> rk, rev_ks |-> ks,
                   r_ancilla |-> Zeros(n), r_output |-> <<out>>]
  /\ key = <<>>
  /\ iv = <<>>
  /\ su_state = <<>>
  /\ state = <<>>
  /\ N = 0
  /\ ks_state = <<>>
  /\ keystream = <<>>
  /\ calls = <<>>
  /\ err = "none"

\* oracle, lines 197-198
OracleCopyKey ==
  /\ pc = "oracle"
  /\ qc' = Run(qc, oracle_copy_key(n))
  /\ pc' = "oracle_trivium"
  /\ UNCHANGED <<i, rounds, n, s0>>
  /\ UNCHANGED clvars

\* oracle, line 201
OracleTrivium ==
  /\ pc = "oracle_trivium"
  /\ qc' = Run(qc, trivium(rounds, n))
  /\ pc' = "oracle_compare"
  /\ UNCHANGED <<i, rounds, n, s0>>
  /\ UNCHANGED clvars

\* oracle, lines 204-207
OracleCompare ==
  /\ pc = "oracle_compare"
  /\ qc' = Run(qc, oracle_compare(n))
  /\ pc' = "oracle_mark"
  /\ UNCHANGED <<i, rounds, n, s0>>
  /\ UNCHANGED clvars

\* oracle, line 210
OracleMark ==
  /\ pc = "oracle_mark"
  /\ qc' = Run(qc, oracle_mark(n))
  /\ pc' = "oracle_uncompare"
  /\ UNCHANGED <<i, rounds, n, s0>>
  /\ UNCHANGED clvars

\* oracle, lines 213-216
OracleUncompare ==
  /\ pc = "oracle_uncompare"
  /\ qc' = Run(qc, oracle_uncompare(n))
  /\ pc' = "oracle_inv_trivium"
  /\ UNCHANGED <<i, rounds, n, s0>>
  /\ UNCHANGED clvars

\* oracle, line 219
OracleInvTrivium ==
  /\ pc = "oracle_inv_trivium"
  /\ qc' = Run(qc, inv_trivium(rounds, n))
  /\ pc' = "oracle_uncopy"
  /\ UNCHANGED <<i, rounds, n, s0>>
  /\ UNCHANGED clvars

\* oracle, lines 221-222
OracleUncopyKey ==
  /\ pc = "oracle_uncopy"
  /\ qc' = Run(qc, oracle_copy_key(n))
  /\ pc' = "oracle_done"
  /\ UNCHANGED <<i, rounds, n, s0>>
  /\ UNCHANGED clvars

NextO ==
  \/ OracleCopyKey \/ OracleTrivium \/ OracleCompare \/ OracleMark
  \/ OracleUncompare \/ OracleInvTrivium \/ OracleUncopyKey

SpecO == InitO /\ [][NextO]_vars

---------------------------------------------------------------------------
(* The statements checked of cl_trivium.py *)

\* the forward clock, cell by cell, every cell read from the state before the clock
ClockCell(st, j) ==
  LET t1 == Xor(Xor(Xor(st[66], And(st[91], st[92])), st[93]), st[171])
      t2 == Xor(Xor(Xor(st[162], And(st[175], st[176])), st[177]), st[264])
      t3 == Xor(Xor(Xor(st[243], And(st[286], st[287])), st[288]), st[69])
  IN  IF j = 0 THEN t3
      ELSE IF j = 93 THEN t1
      ELSE IF j = 177 THEN t2
      ELSE st[j]

ForwardClock(st) == SubSeq([j \in 1..288 |-> ClockCell(st, j - 1)], 1, 288)

\* the forward clock applied cnt times (the first half is computed, then the
\* second half is applied to that value)
RECURSIVE ClockTimes(_, _)
ClockTimes(cnt, st) ==
  IF cnt = 0 THEN st
  ELSE IF cnt = 1 THEN ForwardClock(st)
  ELSE CHOOSE res \in { ClockTimes(cnt - (cnt \div 2), half) :
                          half \in { ClockTimes(cnt \div 2, st) } } : TRUE

\* the loaded state L of a key and an IV
Loaded(k, v) ==
  [j \in 1..288 |->
     IF j - 1 \in 0..79 THEN k[j]
     ELSE IF j - 1 \in 93..172 THEN v[j - 93]
     ELSE IF j - 1 \in 285..287 THEN 1
     ELSE 0]

\* C3: for an 80-bit key and an 80-bit IV, the state key_iv_setup returns is
\* the forward clock applied exactly 1152 times to the loaded state L (key at
\* 0..79, IV at 93..172, 1 at 285..287, 0 elsewhere), and it is reached after
\* 1152 iterations of the warm-up loop.
C3_SetupResult ==
  (pc = "ready" /\ calls = <<>> /\ Len(key) = 80 /\ Len(iv) = 80)
    => (state = ClockTimes(1152, Loaded(key, iv)) /\ i = 1152)

C3_Witness ==
  /\ pc = "ready" /\ calls = <<>>
  /\ key = Zeros(80) /\ iv = Zeros(80)
  /\ Len(state) = 288
  /\ state # Zeros(288)

\* the six-tap output bit of a state
OutputBit(st) ==
  Xor(Xor(Xor(Xor(Xor(st[66], st[93]), st[162]), st[177]), st[243]), st[288])

\* the first len bits of the stream that starts in st
RECURSIVE OutputBits(_, _)
OutputBits(st, len) ==
  IF len <= 0 THEN <<>>
  ELSE <<OutputBit(st)>> \o OutputBits(ForwardClock(st), len - 1)

LastBits(l, len) == SubSeq(l, Len(l) - len + 1, Len(l))

\* C2: a call for N1 bits and then a call for N2 bits on the same state: the
\* second call returns the last N2 bits of the N1 + N2 bits of a fresh engine
\* of the same key and IV (it continues, it does not restart).
C2_StreamingContinuity ==
  (pc = "ready" /\ Len(calls) >= 2 /\ calls[1][1] >= 0 /\ calls[2][1] >= 0)
    => calls[2][2] = LastBits(OutputBits(state, calls[1][1] + calls[2][1]), calls[2][1])

\* C4: a key or an IV that is not exactly 80 bits long makes construction fail
\* with InvalidLengthError before any state is written, and no engine state
\* is produced.
C4_InvalidLength ==
  (Len(key) # 80 \/ Len(iv) # 80)
    => /\ pc \in {"start", "raised"}
       /\ pc = "raised" => (err = "InvalidLengthError" /\ su_state = <<>>)
       /\ state = <<>>

\* C5: a request for a negative number of bits fails with InvalidRequestError
\* before any clock: the call never enters its loop and returns no keystream.
C5_InvalidRequest ==
  /\ (pc = "ks" => N >= 0)
  /\ (N < 0 => (pc = "raised" /\ err = "InvalidRequestError"))
  /\ \A k \in 1..Len(calls) : calls[k][1] >= 0

\* C6: for N >= 0 a call returns exactly N bits after exactly N iterations of
\* its loop; for N = 0 it returns the empty sequence after no iteration with
\* the state it was given unchanged; no call changes the caller's state.
C6_LengthCorrectness ==
  [][ /\ (pc = "ks" /\ pc' = "ready" /\ N >= 0)
         => /\ calls' = Append(calls, <<N, keystream>>)
            /\ Len(keystream) = N
            /\ i = N
            /\ N = 0 => (keystream = <<>> /\ ks_state = state)
      /\ (pc \in {"ready", "ks"}) => state' = state
    ]_vars

C6_Witness ==
  /\ pc = "ready"
  /\ Len(calls) = 2
  /\ calls[1][1] = 0 /\ calls[1][2] = <<>>
  /\ calls[2][1] = MaxN /\ Len(calls[2][2]) = MaxN

\* C7: one warm-up clock computes every cell of the new 288-bit state from the
\* state before the clock: s'[0] = t3, s'[93] = t1, s'[177] = t2 and
\* s'[j] = s[j-1] elsewhere, with t1, t2, t3 the tap values of s.
C7_ForwardClock ==
  [][ (pc = "warmup" /\ i' = i + 1)
        => /\ Len(su_state') = 288
           /\ \A j \in 0..287 : At(su_state', j) = ClockCell(su_state, j)
    ]_vars

C7_Witness ==
  /\ pc = "warmup"
  /\ i = 2
  /\ su_state # Zeros(288)

\* C8: the bit a keystream clock appends is s[65] XOR s[92] XOR s[161] XOR
\* s[176] XOR s[242] XOR s[287] of the state s it starts from, bit 0 first,
\* earlier bits are kept, the returned sequence is the one collected, and the
\* state transition of a keystream clock is that of a warm-up clock.
C8_KeystreamOutput ==
  [][ /\ (pc = "ks" /\ i' = i + 1)
         => /\ At(keystream', i) = OutputBit(ks_state)
            /\ \A k \in 0..(i - 1) : At(keystream', k) = At(keystream, k)
            /\ Len(keystream') = Len(keystream)
            /\ ks_state' = WarmupClock(ks_state)
      /\ (pc = "ready" /\ pc' = "ks") => ks_state' = state
      /\ (pc = "ks" /\ pc' = "ready") => calls'[Len(calls')] = <<N, keystream>>
    ]_vars

C8_Witness ==
  /\ pc = "ready"
  /\ Len(calls) >= 1
  /\ calls[1][1] = MaxN
  /\ \E k \in 1..MaxN : calls[1][2][k] = 1

\* C9 as stated: on every forward clock the trailing bit of each register
\* becomes the new leading bit of the next register: old state[92] is new
\* state[93], old state[176] is new state[177], old state[287] is new state[0].
C9_TrailingBitMoves ==
  [][ /\ (pc = "warmup" /\ i' = i + 1)
         => /\ At(su_state', 93) = At(su_state, 92)
            /\ At(su_state', 177) = At(su_state, 176)
            /\ At(su_state', 0) = At(su_state, 287)
      /\ (pc = "ks" /\ i' = i + 1)
         => /\ At(ks_state', 93) = At(ks_state, 92)
            /\ At(ks_state', 177) = At(ks_state, 176)
            /\ At(ks_state', 0) = At(ks_state, 287)
    ]_vars

\* what a clock does to the three registers: every cell but the leading one
\* takes the value of the cell before it (the trailing bit is shifted out),
\* and the leading bit of the next register is the trailing bit XORed with
\* the other taps of its register
Rotated(old, new) ==
  /\ \A j \in (1..92) \cup (94..176) \cup (178..287) : At(new, j) = At(old, j - 1)
  /\ At(new, 93) = Xor(At(old, 92),
                       Xor(Xor(At(old, 65), And(At(old, 90), At(old, 91))), At(old, 170)))
  /\ At(new, 177) = Xor(At(old, 176),
                        Xor(Xor(At(old, 161), And(At(old, 174), At(old, 175))), At(old, 263)))
  /\ At(new, 0) = Xor(At(old, 287),
                      Xor(Xor(At(old, 242), And(At(old, 285), At(old, 286))), At(old, 68)))

\* C9 (amended): on every forward clock, warm-up or keystream, each register
\* loses its trailing bit, and the new leading bit of the next register in
\* the rotation A to B to C to A is that trailing bit XORed with the other
\* taps of the register it leaves.
C9_TrailingBitFeedsTap ==
  [][ /\ (pc = "warmup" /\ i' = i + 1) => Rotated(su_state, su_state')
      /\ (pc = "ks" /\ i' = i + 1) => Rotated(ks_state, ks_state')
    ]_vars

C9_Witness ==
  /\ pc = "ks"
  /\ i = 1
  /\ At(ks_state, 93) # At(state, 92)

---------------------------------------------------------------------------
(* The statements checked of the circuits *)

\* C1: trivium (rounds warm-up rounds, then n keystream rounds) followed by
\* inv_trivium (n inverse keystream rounds, then rounds inverse warm-up
\* rounds) returns register s to the state it started from, bit for bit, and
\* t and z to 0; with one round this is one inverse clock undoing one clock.
C1_RoundTrip ==
  pc = "inverted"
    => /\ qc.s = s0
       /\ qc.t = Zeros(3)
       /\ qc.z = Zeros(n)

C1_Witness ==
  /\ pc = "inverted"
  /\ rounds = MaxRounds
  /\ n = MaxKs
  /\ s0 = Pattern(1)
  /\ qc.s = s0

\* C10: on basis values, every warm-up round of the circuit leaves in s the
\* classical warm-up clock of the previous s and leaves z as it was, every
\* keystream round leaves in s the classical keystream clock of the previous
\* s and in z[i] the classical output bit, the other cells of z as they were,
\* and after every round t[0], t[1], t[2] are 0 again.
C10_GateLevelRefines ==
  [][ /\ (pc \in {"qc_warmup", "trivium_warmup"} /\ i' = i + 1)
         => /\ qc'.s = WarmupClock(qc.s)
            /\ qc'.t = Zeros(3)
            /\ qc'.z = qc.z
      /\ (pc \in {"qc_keystream", "trivium_keystream"} /\ i' = i + 1)
         => /\ qc'.s = KsClock(qc.s)
            /\ At(qc'.z, i) = KsOutput(qc.s)
            /\ \A k \in Range(Len(qc.z)) \ {i} : At(qc'.z, k) = At(qc.z, k)
            /\ Len(qc'.z) = Len(qc.z)
            /\ qc'.t = Zeros(3)
    ]_vars

C10_Witness ==
  /\ pc = "qc_measured"
  /\ i = r
  /\ qc.t = Zeros(3)
  /\ \E k \in Range(r) : At(qc.z, k) = 1
  /\ \E k \in Range(r) : At(qc.z, k) = 0

\* register contents st with the candidate key bits rk in cells 51, 52, ...
KeyCopied(st, rk) ==
  [j \in 1..288 |->
     IF j - 1 >= 51 /\ j - 1 < 51 + Len(rk) THEN rk[j - 51] ELSE st[j]]

\* the cnt keystream bits that follow rnds warm-up clocks of st
GeneratedKeystream(st, rnds, cnt) == OutputBits(ClockTimes(rnds, st), cnt)

\* C11: on basis values, with t, z, r_ancilla and s[51..51+n-1] at 0 before
\* the call, oracle flips r_output exactly when the n keystream bits
\* generated from s with the candidate key bits r_key copied into
\* s[51..51+n-1] equal rev_ks, changes r_output at no other point, never
\* changes r_key or rev_ks, and ends with s, t, z and r_ancilla as they were
\* before the call.
C11_OracleMarksAndUncomputes ==
  [][ /\ qc'.r_key = qc.r_key
      /\ qc'.rev_ks = qc.rev_ks
      /\ pc = "oracle_mark"
         => qc'.r_output[1] =
              Xor(qc.r_output[1],
                  IF GeneratedKeystream(KeyCopied(s0, qc.r_key), rounds, n) = qc.rev_ks
                    THEN 1 ELSE 0)
      /\ pc # "oracle_mark" => qc'.r_output = qc.r_output
      /\ pc' = "oracle_done"
         => /\ qc'.s = s0
            /\ qc'.t = Zeros(3)
            /\ qc'.z = Zeros(n)
            /\ qc'.r_ancilla = Zeros(n)
    ]_vars

C11_Witness ==
  /\ pc = "oracle_uncompare"
  /\ n = grover_n
  /\ rounds = grover_rounds
  /\ qc.r_key = <<1, 0, 0>>
  /\ qc.z = known_ks
  /\ qc.r_ancilla = <<1, 1, 1>>
  /\ qc.r_output = <<1>>

=============================================================================
